---- MODULE Spec2Model ----
(***************************************************************************)
(* Medical term annotation engine of the SOAP recorder front end: the      *)
(* MedicalSpellChecker component (its two revisions), the host components  *)
(* SpellCheckedTextArea and SpellCheckedSOAPField that mount it, and the   *)
(* parent's explicit check triggers.                                       *)
(*                                                                         *)
(* Texts are sequences of one-character strings, offsets are 0-based and   *)
(* half open as in JavaScript.                                             *)
(***************************************************************************)
EXTENDS Integers, Sequences, FiniteSets, Bags, TLC

(***************************************************************************)
(* Bounds of the model.                                                    *)
(***************************************************************************)
\* an accepted replacement is explored only while the text stays this short
MaxTextLen == 6
\* resolution requests (network round trips) issued in one run
MaxRequests == 2
\* values the numeric trigger checkVersion takes: 0..MaxVersion
MaxVersion == 1
\* /suggest requests of one checker instance that may be in flight together
MaxPendingSuggest == 1
\* SOAP notes generated in one run
MaxNotes == 2
\* /suggest requests awaiting their responses while terms are clicked in a row
MaxPendingClicks == 2
\* checker components mounted on one page
MaxComponents == 2
\* GET /medical-nlp-status requests sent in one run
MaxNlpRequests == 3
\* changes of the debounced checker's text in one run
MaxTextChanges == 3
\* requests the debounced checker sends in one run
MaxDebouncedRequests == 4

(***************************************************************************)
(* Program constants.                                                      *)
(***************************************************************************)
CACHE_LIMIT == 100

(***************************************************************************)
(* Strings.                                                                *)
(***************************************************************************)
Min(a, b) == IF a <= b THEN a ELSE b
Max(a, b) == IF a >= b THEN a ELSE b

\* String.prototype.substring(a, b): both indices clamped to [0, length],
\* swapped when a > b
Substring(s, a, b) ==
  LET ca == Max(0, Min(a, Len(s)))
      cb == Max(0, Min(b, Len(s)))
  IN  SubSeq(s, Min(ca, cb) + 1, Max(ca, cb))

\* String.prototype.substring(a)
SubstringFrom(s, a) == Substring(s, a, Len(s))

\* String.prototype.toLowerCase on the alphabet of the model
LowerChar(c) == IF c = "A" THEN "a" ELSE IF c = "B" THEN "b" ELSE IF c = "D" THEN "d" ELSE c
ToLowerCase(s) == [i \in 1..Len(s) |-> LowerChar(s[i])]

\* String.prototype.trim
RECURSIVE TrimLeft(_)
TrimLeft(s) == IF s # <<>> /\ Head(s) = " " THEN TrimLeft(Tail(s)) ELSE s
RECURSIVE TrimRight(_)
TrimRight(s) ==
  IF s # <<>> /\ s[Len(s)] = " " THEN TrimRight(SubSeq(s, 1, Len(s) - 1)) ELSE s
Trim(s) == TrimRight(TrimLeft(s))

\* cacheKey = trimmed.toLowerCase()
CacheKey(t) == ToLowerCase(Trim(t))

(***************************************************************************)
(* Sequence helpers.                                                       *)
(***************************************************************************)
Range(s) == {s[i] : i \in 1..Len(s)}

RECURSIVE SeqFilter(_, _)
\* the members of s whose index is in keep, in order
SeqFilter(s, keep) ==
  IF s = <<>> THEN <<>>
  ELSE LET n == Len(s)
           front == SeqFilter(SubSeq(s, 1, n - 1), keep)
       IN  IF n \in keep THEN Append(front, s[n]) ELSE front

RECURSIVE SeqBag(_)
SeqBag(s) == IF s = <<>> THEN EmptyBag ELSE SeqBag(Tail(s)) (+) SetToBag({Head(s)})

(***************************************************************************)
(* Term records.  A JavaScript object is a record with every field the     *)
(* components read; a field the object does not carry holds the value the  *)
(* readers substitute for undefined (false, the empty list, "").           *)
(***************************************************************************)
Term(term, start, end, isCorrect, needsCorrection, source, category, suggestions, alternatives) ==
  [term |-> term, start |-> start, end |-> end,
   is_correct |-> isCorrect, needs_correction |-> needsCorrection,
   source |-> source, category |-> category,
   suggestions |-> suggestions, alternatives |-> alternatives]

(***************************************************************************)
(* The backend (POST /check-medical-terms, POST /drug-confusion-scan).     *)
(* Its code is not part of the front end; it is modelled from the          *)
(* specification: a deterministic resolver over a small lexicon, returning *)
(* spans sorted by start, non-overlapping, each carrying the text it       *)
(* covers.  Phrases win over the words they contain; the drug-confusion    *)
(* matcher scans words independently of the spell check.                   *)
(***************************************************************************)
CorrectWords == {<<"a">>, <<"a", "a">>, <<"d">>}
MisspelledWords == {<<"b">>, <<"b", "b">>}
PhrasePatterns == {<<"d", " ", "b">>}
ConfusableDrugs == {<<"d">>}

IsWordSpan(t, s, e) ==
  /\ 0 <= s /\ s < e /\ e <= Len(t)
  /\ \A i \in (s + 1)..e : t[i] # " "
  /\ s = 0 \/ t[s] = " "
  /\ e = Len(t) \/ t[e + 1] = " "

WordSpans(t) == {p \in (0..Len(t)) \X (0..Len(t)) : IsWordSpan(t, p[1], p[2])}

PhraseSpans(t) ==
  {p \in (0..Len(t)) \X (0..Len(t)) :
     /\ \E m \in 0..Len(t) : IsWordSpan(t, p[1], m) /\ IsWordSpan(t, m + 1, p[2])
     /\ ToLowerCase(Substring(t, p[1], p[2])) \in PhrasePatterns}

RECURSIVE SortByStart(_)
\* the spans of a set of disjoint offset pairs, ascending by start
SortByStart(ps) ==
  IF ps = {} THEN <<>>
  ELSE LET first == CHOOSE p \in ps : \A q \in ps : p[1] <= q[1]
       IN  <<first>> \o SortByStart(ps \ {first})

SpellSpan(t, p) ==
  LET surface == Substring(t, p[1], p[2])
      bad == \/ ToLowerCase(surface) \in MisspelledWords
             \/ ToLowerCase(surface) \in PhrasePatterns
  IN  Term(surface, p[1], p[2], ~bad, bad,
           IF bad THEN "llm_identified" ELSE "local_dictionary",
           "medication",
           IF bad THEN << <<"a">> >> ELSE <<>>,
           <<>>)

\* the JSON body of a successful /check-medical-terms response for text t
CheckMedicalTermsBackend(t) ==
  LET phrases == PhraseSpans(t)
      words == {p \in WordSpans(t) :
                  /\ ToLowerCase(Substring(t, p[1], p[2])) \in CorrectWords \cup MisspelledWords
                  /\ ~\E q \in phrases : q[1] <= p[1] /\ p[2] <= q[2]}
      spans == SortByStart(phrases \cup words)
      results == [i \in 1..Len(spans) |-> SpellSpan(t, spans[i])]
  IN  [results |-> results,
       unique_count |-> Cardinality({ToLowerCase(results[i].term) : i \in 1..Len(results)}),
       total_occurrences |-> Len(results)]

\* the matches of a successful /drug-confusion-scan response for text t
DrugConfusionScanBackend(t) ==
  LET words == {p \in WordSpans(t) : ToLowerCase(Substring(t, p[1], p[2])) \in ConfusableDrugs}
      spans == SortByStart(words)
  IN  [i \in 1..Len(spans) |->
         [term |-> Substring(t, spans[i][1], spans[i][2]),
          start |-> spans[i][1], end |-> spans[i][2],
          alternatives |-> << <<"a", "a">> >>]]

(***************************************************************************)
(* The texts the parent supplies (transcripts, SOAP fields).               *)
(***************************************************************************)
TextDBA == <<"d", " ", "b", " ", "a">>
Texts == {TextDBA, <<>>}

\* GET /suggest?word=...: the related products of the knowledge base
SuggestBackend(word) ==
  IF ToLowerCase(word) \in MisspelledWords \cup ConfusableDrugs \cup PhrasePatterns
  THEN << [value |-> <<"a", "a">>, typeName |-> "product"] >>
  ELSE <<>>

(***************************************************************************)
(* State.                                                                  *)
(***************************************************************************)
VARIABLES
  variant,                  \* which revision of MedicalSpellChecker is deployed
  host,                     \* which host component mounts the checker
  text,                     \* the host's localValue, the checker's text prop
  isEditing,                \* host in edit mode: textarea shown, checker unmounted
  checkNow,                 \* parent's boolean trigger prop
  checkVersion,             \* parent's numeric trigger prop
  lastProcessedCheckNowRef,
  lastProcessedVersionRef,
  medicalTerms,
  confusionMatches,
  selectedTerm,             \* <<>> for null, <<term>> otherwise
  suggestions,
  showSuggestions,
  showingAlternatives,
  isChecking,
  uniqueTermCount,
  totalOccurrences,
  termCache,                \* the Map, as its entries in insertion order; history:
                            \* expired, the entry has outlived its time-to-live
  cacheUse,                 \* history: the keys of termCache, least recently used first
  inflight,                 \* resolution requests awaiting their responses; history:
                            \* overtaken, a correction was made since the request left
  pendingSuggest,           \* /suggest requests awaiting their responses
  lastRequested,            \* history: <<text>> of the request sent last, while one is under way
  requests,                 \* history: the resolution requests issued so far
  op,                       \* history: what the last accept, ignore or confirm read and set
  soapNote,                 \* SOAPRecorder: 0 for null, else the number of the note shown
  isProcessing,
  isEditingSOAP,
  userAgreement,
  showAuthForm,
  username,
  password,
  isAuthenticated,
  authError,
  agreedNote,               \* history: the note shown when the agreement was checked
  authenticatedNote,        \* history: the note shown when the authentication was completed
  showLegend,               \* per checker component: its legend is open
  nlpStatus,                \* per checker component: <<>> (null) or <<status>>
  medicalNlpStatusCache,    \* window.__medicalNlpStatusCache: <<>> or <<status>>
  medicalNlpStatusPromise,  \* window.__medicalNlpStatusPromise: <<>> or <<id of its request>>
  nlpInflight,              \* the GET /medical-nlp-status requests awaiting their responses
  nlpSent,                  \* history: GET /medical-nlp-status requests sent so far
  nlpSucceeded,             \* history: a GET /medical-nlp-status request has succeeded
  debouncedText,            \* the debounced checker: its text prop
  debouncedTerms,           \* the debounced checker: medicalTerms
  debouncedChecking,        \* the debounced checker: isChecking
  debouncedCache,           \* the debounced checker: termCache
  checkTimeoutRef,          \* checkTimeoutRef.current: <<>> or <<id of the last timer set>>
  timers,                   \* the timers set and neither fired nor cleared
  timerIds,                 \* timer ids handed out by setTimeout so far
  debouncedInflight,        \* requests of the debounced checker awaiting their responses
  textChanges,              \* history: changes of the text prop so far
  sentSinceChange           \* history: requests sent since the text changed last

checkerVars ==
  <<lastProcessedCheckNowRef, lastProcessedVersionRef, medicalTerms, confusionMatches,
    selectedTerm, suggestions, showSuggestions, showingAlternatives, isChecking,
    uniqueTermCount, totalOccurrences, termCache, cacheUse, inflight, pendingSuggest,
    lastRequested>>

recorderVars ==
  <<soapNote, isProcessing, isEditingSOAP, userAgreement, showAuthForm, username, password,
    isAuthenticated, authError, agreedNote, authenticatedNote>>

legendVars ==
  <<showLegend, nlpStatus, medicalNlpStatusCache, medicalNlpStatusPromise, nlpInflight,
    nlpSent, nlpSucceeded>>

debounceVars ==
  <<debouncedText, debouncedTerms, debouncedChecking, debouncedCache, checkTimeoutRef,
    timers, timerIds, debouncedInflight, textChanges, sentSinceChange>>

vars ==
  <<variant, host, text, isEditing, checkNow, checkVersion, checkerVars, requests, op,
    recorderVars, legendVars, debounceVars>>

\* the state of the mounted checker instance, as one value
Checker ==
  [lastProcessedCheckNowRef |-> lastProcessedCheckNowRef,
   lastProcessedVersionRef |-> lastProcessedVersionRef,
   medicalTerms |-> medicalTerms,
   confusionMatches |-> confusionMatches,
   selectedTerm |-> selectedTerm,
   suggestions |-> suggestions,
   showSuggestions |-> showSuggestions,
   showingAlternatives |-> showingAlternatives,
   isChecking |-> isChecking,
   uniqueTermCount |-> uniqueTermCount,
   totalOccurrences |-> totalOccurrences,
   termCache |-> termCache,
   cacheUse |-> cacheUse,
   inflight |-> inflight,
   pendingSuggest |-> pendingSuggest,
   lastRequested |-> lastRequested]

\* the useState / useRef initial values of a newly mounted instance
FreshChecker(version) ==
  [lastProcessedCheckNowRef |-> FALSE,
   lastProcessedVersionRef |-> version,
   medicalTerms |-> <<>>,
   confusionMatches |-> <<>>,
   selectedTerm |-> <<>>,
   suggestions |-> <<>>,
   showSuggestions |-> FALSE,
   showingAlternatives |-> FALSE,
   isChecking |-> FALSE,
   uniqueTermCount |-> 0,
   totalOccurrences |-> 0,
   termCache |-> <<>>,
   cacheUse |-> <<>>,
   inflight |-> <<>>,
   pendingSuggest |-> <<>>,
   lastRequested |-> <<>>]

Install(c) ==
  /\ lastProcessedCheckNowRef' = c.lastProcessedCheckNowRef
  /\ lastProcessedVersionRef' = c.lastProcessedVersionRef
  /\ medicalTerms' = c.medicalTerms
  /\ confusionMatches' = c.confusionMatches
  /\ selectedTerm' = c.selectedTerm
  /\ suggestions' = c.suggestions
  /\ showSuggestions' = c.showSuggestions
  /\ showingAlternatives' = c.showingAlternatives
  /\ isChecking' = c.isChecking
  /\ uniqueTermCount' = c.uniqueTermCount
  /\ totalOccurrences' = c.totalOccurrences
  /\ termCache' = c.termCache
  /\ cacheUse' = c.cacheUse
  /\ inflight' = c.inflight
  /\ pendingSuggest' = c.pendingSuggest
  /\ lastRequested' = c.lastRequested

\* both hosts pass enabled = true (enableSpellCheck && !disabled, resp. true)
enabled == TRUE

\* the checker is rendered: the host is in view mode, and the text area host
\* shows a placeholder instead of the checker while its value is empty
MountedWith(h, editing, t) == ~editing /\ (h = "SOAPField" \/ t # <<>>)
Mounted == MountedWith(host, isEditing, text)

(***************************************************************************)
(* The cache (a Map keyed by the normalized text).                         *)
(***************************************************************************)
CacheHas(cache, key) == \E i \in 1..Len(cache) : cache[i].key = key
CacheEntry(cache, key) == cache[CHOOSE i \in 1..Len(cache) : cache[i].key = key]
CacheGet(cache, key) == CacheEntry(cache, key).data
CacheKeys(cache) == {cache[i].key : i \in 1..Len(cache)}

\* Map.prototype.set: an existing key keeps its place, a new one goes last
MapSet(cache, key, data) ==
  IF CacheHas(cache, key)
  THEN [i \in 1..Len(cache) |->
          IF cache[i].key = key THEN [key |-> key, data |-> data, expired |-> FALSE]
          ELSE cache[i]]
  ELSE Append(cache, [key |-> key, data |-> data, expired |-> FALSE])

\* the same without the deletion over the limit
CacheInsertUnbounded(cache, key, data) == MapSet(cache, key, data)

\* the setTermCache updater: insert, then drop the first key over the limit
CacheInsert(cache, key, data) ==
  LET newCache == MapSet(cache, key, data)
  IN  IF Len(newCache) > CACHE_LIMIT THEN Tail(newCache) ELSE newCache

\* the keys of use without key, in their order (a key occurs once)
WithoutKey(use, key) ==
  IF key \in Range(use)
  THEN LET p == CHOOSE i \in 1..Len(use) : use[i] = key
       IN  SubSeq(use, 1, p - 1) \o SubSeq(use, p + 1, Len(use))
  ELSE use

RECURSIVE WithoutKeys(_, _)
WithoutKeys(use, keys) ==
  IF keys = {} THEN use
  ELSE LET key == CHOOSE k \in keys : TRUE
       IN  WithoutKeys(WithoutKey(use, key), keys \ {key})

\* history: key has just been used (served or stored); the keys that have
\* left the cache are forgotten
Used(use, key, cache) ==
  LET gone == {k \in Range(use) : k \notin CacheKeys(cache)}
      others == WithoutKeys(WithoutKey(use, key), gone)
  IN  IF key \in CacheKeys(cache) THEN Append(others, key) ELSE others

\* a JSON body carries a results list
HasResults(data) == "results" \in DOMAIN data

\* a value that is no array, set where the span list is expected: held as a
\* one-element list, so that the variable keeps the shape of a list
NotAnArray(value) == <<value>>

\* cachedResult.results || cachedResult
ResultsOrSelf(data) == IF HasResults(data) THEN data.results ELSE NotAnArray(data)

\* data.results || []
ResultsOrNone(data) == IF HasResults(data) THEN data.results ELSE <<>>

\* data[field] || 0
NumberOr0(data, field) == IF field \in DOMAIN data THEN data[field] ELSE 0

\* (cachedResult.results || cachedResult).length; the length of an object
\* that is no array is undefined, shown as nothing, held as 0
LengthOf(data) == IF HasResults(data) THEN Len(data.results) ELSE 0

\* the text prop as the absent values null and undefined
Null == <<"null">>
Undefined == <<"undefined">>

\* typeof textToCheck === 'string' ? textToCheck : String(textToCheck || '')
Normalized(textToCheck) == IF textToCheck \in {Null, Undefined} THEN <<>> ELSE textToCheck

(***************************************************************************)
(* runMedicalAnalysis (checkMedicalTerms in the revision without the       *)
(* drug-confusion scan): the synchronous part, up to the fetch.            *)
(***************************************************************************)
\* the same without the early return on a text that trims to nothing
RunWithoutEmptyGuard(c, textToCheck) ==
  LET normalized == Normalized(textToCheck)
      trimmed == Trim(normalized)
      cacheKey == ToLowerCase(trimmed)
  IN  IF ~enabled THEN c
      ELSE IF CacheHas(c.termCache, cacheKey) THEN
        LET cachedResult == CacheGet(c.termCache, cacheKey)
        IN  [c EXCEPT !.medicalTerms = ResultsOrSelf(cachedResult),
                      !.uniqueTermCount = NumberOr0(cachedResult, "unique_count"),
                      !.totalOccurrences =
                        IF NumberOr0(cachedResult, "total_occurrences") # 0
                        THEN cachedResult.total_occurrences
                        ELSE LengthOf(cachedResult),
                      !.cacheUse = Used(@, cacheKey, c.termCache)]
      ELSE
        [c EXCEPT !.isChecking = TRUE,
                  !.inflight = Append(@, [text |-> normalized, cacheKey |-> cacheKey,
                                           overtaken |-> FALSE]),
                  !.lastRequested = <<normalized>>]

RunMedicalAnalysis(c, textToCheck) ==
  LET normalized == Normalized(textToCheck)
      trimmed == Trim(normalized)
      cacheKey == ToLowerCase(trimmed)
  IN  IF ~enabled THEN c
      ELSE IF trimmed = <<>> THEN
        [c EXCEPT !.medicalTerms = <<>>,
                  !.confusionMatches = IF variant = "confusion" THEN <<>> ELSE @,
                  !.uniqueTermCount = 0,
                  !.totalOccurrences = 0]
      ELSE IF CacheHas(c.termCache, cacheKey) THEN
        LET cachedResult == CacheGet(c.termCache, cacheKey)
        IN  [c EXCEPT !.medicalTerms = ResultsOrSelf(cachedResult),
                      !.uniqueTermCount = NumberOr0(cachedResult, "unique_count"),
                      !.totalOccurrences =
                        IF NumberOr0(cachedResult, "total_occurrences") # 0
                        THEN cachedResult.total_occurrences
                        ELSE LengthOf(cachedResult),
                      !.cacheUse = Used(@, cacheKey, c.termCache)]
      ELSE
        [c EXCEPT !.isChecking = TRUE,
                  !.inflight = Append(@, [text |-> normalized, cacheKey |-> cacheKey,
                                           overtaken |-> FALSE]),
                  !.lastRequested = <<normalized>>]

\* the matches of a drug-confusion response, as runMedicalAnalysis keeps them
ConfusionResults(matches) ==
  LET kept == SeqFilter(matches, {i \in 1..Len(matches) : matches[i].end > matches[i].start})
  IN  [i \in 1..Len(kept) |->
         Term(kept[i].term, kept[i].start, kept[i].end, FALSE, FALSE,
              "drug_confusion", "drug_confusion", <<>>, kept[i].alternatives)]

\* how the fetches of one resolution may end: every response ok, one of them
\* not ok (an HTTP error status), or a rejected fetch
Outcomes ==
  IF variant = "confusion"
  THEN {"ok", "spell_not_ok", "confusion_not_ok", "network_error"}
  ELSE {"ok", "spell_not_ok", "network_error"}

\* a response of /check-medical-terms with status 200 whose JSON body has no
\* results list, next to the outcomes above
PayloadWithoutResults == [message |-> "no results"]

\* the outcomes that differ for the cache: a body that is stored, a body
\* without results that is stored, and no body
CacheOutcomes == {"ok", "ok_no_results", "network_error"}

\* the continuation of runMedicalAnalysis / checkMedicalTerms once the
\* response(s) of request number i have arrived
ResolveResponse(c, i, outcome) ==
  LET req == c.inflight[i]
      rest == SeqFilter(c.inflight, (1..Len(c.inflight)) \ {i})
      done == [c EXCEPT !.inflight = rest, !.isChecking = FALSE,
                        !.lastRequested = IF rest = <<>> THEN <<>> ELSE @]
      spellData == IF outcome = "ok_no_results" THEN PayloadWithoutResults
                   ELSE CheckMedicalTermsBackend(req.text)
      spellResults == ResultsOrNone(spellData)
      spellOk == outcome \in {"ok", "confusion_not_ok", "ok_no_results"}
      newCache == CacheInsert(c.termCache, req.cacheKey, spellData)
      cached == [done EXCEPT
                   !.termCache = newCache,
                   !.cacheUse = Used(@, req.cacheKey, newCache),
                   !.uniqueTermCount = NumberOr0(spellData, "unique_count"),
                   !.totalOccurrences =
                     IF NumberOr0(spellData, "total_occurrences") # 0
                     THEN spellData.total_occurrences ELSE Len(spellResults)]
  IN  IF outcome = "network_error" THEN done
      ELSE IF variant = "confusion" THEN
        [(IF spellOk THEN cached ELSE done) EXCEPT
           !.medicalTerms = IF spellOk THEN spellResults ELSE <<>>,
           !.confusionMatches =
             IF outcome \in {"ok", "spell_not_ok", "ok_no_results"}
             THEN ConfusionResults(DrugConfusionScanBackend(req.text)) ELSE <<>>]
      ELSE
        IF spellOk THEN [cached EXCEPT !.medicalTerms = spellResults] ELSE done

(***************************************************************************)
(* The two trigger effects, run after every render in this order.          *)
(***************************************************************************)
CheckNowEffect(c, now, t) ==
  IF ~enabled THEN c
  ELSE IF now /\ ~c.lastProcessedCheckNowRef
    THEN RunMedicalAnalysis([c EXCEPT !.lastProcessedCheckNowRef = TRUE], t)
  ELSE IF ~now /\ c.lastProcessedCheckNowRef
    THEN [c EXCEPT !.lastProcessedCheckNowRef = FALSE]
  ELSE c

CheckVersionEffect(c, version, t) ==
  IF ~enabled THEN c
  ELSE IF version # c.lastProcessedVersionRef
    THEN RunMedicalAnalysis([c EXCEPT !.lastProcessedVersionRef = version], t)
  ELSE c

\* the host passes its checkVersion prop down only in SpellCheckedTextArea
VersionProp(h, version) == IF h = "TextArea" THEN version ELSE 0

TriggerEffects(c, h, now, version, t) ==
  CheckVersionEffect(CheckNowEffect(c, now, t), VersionProp(h, version), t)

\* the instance after a render with the given props: the same instance while
\* it stays mounted, a new one (whose effects run on mount) when it appears.
\* Unmounting discards the instance: its state is gone and the responses
\* still under way are ignored; while no instance is mounted the checker
\* variables hold the initial values the next instance will start from.
Rendered(c, wasMounted, h, editing, now, version, t) ==
  IF ~MountedWith(h, editing, t) THEN FreshChecker(VersionProp(h, version))
  ELSE IF wasMounted THEN TriggerEffects(c, h, now, version, t)
  ELSE TriggerEffects(FreshChecker(VersionProp(h, version)), h, now, version, t)

(***************************************************************************)
(* renderHighlightedText: the span list that is rendered and clickable.    *)
(***************************************************************************)
RECURSIVE InsertByStart(_, _)
\* t placed after every member whose start is not larger (a stable sort step)
InsertByStart(sorted, t) ==
  IF sorted = <<>> THEN <<t>>
  ELSE IF sorted[Len(sorted)].start <= t.start THEN Append(sorted, t)
  ELSE Append(InsertByStart(SubSeq(sorted, 1, Len(sorted) - 1), t), sorted[Len(sorted)])

RECURSIVE SortTerms(_)
\* Array.prototype.sort((a, b) => a.start - b.start), which is stable
SortTerms(terms) ==
  IF terms = <<>> THEN <<>>
  ELSE InsertByStart(SortTerms(SubSeq(terms, 1, Len(terms) - 1)), terms[Len(terms)])

TermKey(t) == <<t.start, t.end, t.term>>

\* the values of confusionTermsMap: one entry per key, at the place of the
\* key's first match, holding the key's last match
ConfusionTerms(matches) ==
  LET firsts == {i \in 1..Len(matches) :
                   \A j \in 1..(i - 1) : TermKey(matches[j]) # TermKey(matches[i])}
      lastOf(i) == CHOOSE j \in 1..Len(matches) :
                     /\ TermKey(matches[j]) = TermKey(matches[i])
                     /\ \A k \in (j + 1)..Len(matches) : TermKey(matches[k]) # TermKey(matches[i])
      keys == SeqFilter([i \in 1..Len(matches) |-> i], firsts)
  IN  [n \in 1..Len(keys) |->
         LET m == matches[lastOf(keys[n])]
         IN  Term(m.term, m.start, m.end, FALSE, FALSE, "drug_confusion",
                  IF m.category # "" THEN m.category ELSE "drug_confusion",
                  m.alternatives, m.alternatives)]

\* the spell-check terms kept next to the confusion matches
FilteredMedicalTerms(terms, matches) ==
  SeqFilter(terms, {i \in 1..Len(terms) :
                      \A j \in 1..Len(matches) : TermKey(matches[j]) # TermKey(terms[i])})

\* the revision without the drug-confusion scan: sorted, a term dropped when
\* it repeats the start and the term of the one before it
DedupedTerms(terms) ==
  LET sorted == SortTerms(terms)
  IN  SeqFilter(sorted, {i \in 1..Len(sorted) :
                           \/ i = 1
                           \/ sorted[i].start # sorted[i - 1].start
                           \/ sorted[i].term # sorted[i - 1].term})

SortedTerms(c) ==
  IF variant = "confusion"
  THEN SortTerms(FilteredMedicalTerms(c.medicalTerms, c.confusionMatches)
                 \o ConfusionTerms(c.confusionMatches))
  ELSE DedupedTerms(c.medicalTerms)

RECURSIVE RenderedFrom(_, _, _)
\* the forEach of renderHighlightedText and the remaining text after it: the
\* text of the elements pushed for the terms of sorted, lastIndex being the
\* end of the term before
RenderedFrom(sorted, t, lastIndex) ==
  IF sorted = <<>>
  THEN IF lastIndex < Len(t) THEN SubstringFrom(t, lastIndex) ELSE <<>>
  ELSE LET term == Head(sorted)
       IN  (IF term.start > lastIndex THEN Substring(t, lastIndex, term.start) ELSE <<>>)
           \o Substring(t, term.start, term.end)
           \o RenderedFrom(Tail(sorted), t, term.end)

\* renderHighlightedText: the text the elements show, read in their order
RenderedText(c, t) ==
  IF ~enabled \/ (c.medicalTerms = <<>> /\ (variant = "confusion" => c.confusionMatches = <<>>))
  THEN t
  ELSE RenderedFrom(SortedTerms(c), t, 0)

\* getTermClassName, as the classification the colour stands for
Classification(t) ==
  IF variant = "confusion" /\ t.source = "user_corrected" THEN "UserCorrected"
  ELSE IF variant = "confusion" /\ t.source = "drug_confusion" THEN "DrugConfusable"
  ELSE LET isValidated ==
             \/ t.is_correct
             \/ t.source \in {"dynamic_list", "local_dictionary", "snomed_ct",
                              "llm_identified_snomed_timeout", "llm_corrected"}
       IN  IF t.needs_correction \/ ~isValidated THEN "Misspelled" ELSE "Correct"

(***************************************************************************)
(* The suggestions popup.                                                  *)
(***************************************************************************)
PopupShown(c) == c.showSuggestions /\ (Len(c.suggestions) > 0 \/ c.selectedTerm # <<>>)

\* the popup asks "is this the correct term?" instead of listing suggestions
ConfirmMode(c) ==
  c.selectedTerm # <<>> /\ c.selectedTerm[1].is_correct /\ ~c.showingAlternatives

\* the sources whose suggestions the popup lists
ListedSources ==
  IF variant = "confusion"
  THEN {"spellcheck", "database", "drug_confusion"}
  ELSE {"spellcheck", "database"}

ListedSuggestions(c) ==
  {c.suggestions[i].value : i \in {j \in 1..Len(c.suggestions) :
                                      c.suggestions[j].source \in ListedSources}}

\* the mousedown listener: a press outside the popup closes it
HandleClickOutside(c) ==
  IF PopupShown(c)
  THEN [c EXCEPT !.showSuggestions = FALSE, !.showingAlternatives = FALSE]
  ELSE c

Tagged(values, source) == [i \in 1..Len(values) |-> [value |-> values[i], source |-> source]]

\* handleTermClick up to its fetch: the selection, and the suggestions the
\* clicked term brings itself
HandleTermClick(c, term) ==
  LET allSuggestions ==
        IF variant = "confusion" /\ term.source = "drug_confusion"
        THEN Tagged(term.alternatives, "drug_confusion")
        ELSE Tagged(term.suggestions, "spellcheck")
  IN  [c EXCEPT !.selectedTerm = <<term>>,
                !.showingAlternatives = FALSE,
                !.pendingSuggest =
                  Append(@, [kind |-> "click", word |-> term.term, base |-> allSuggestions])]

\* the "No, show alternatives" button up to its fetch
HandleShowAlternatives(c) ==
  [c EXCEPT !.showingAlternatives = TRUE,
            !.suggestions = << [value |-> <<"Loading suggestions...">>, source |-> "loading"] >>,
            !.pendingSuggest =
              Append(@, [kind |-> "alternatives", word |-> c.selectedTerm[1].term, base |-> <<>>])]

SuggestOutcomes == {"ok", "not_ok", "network_error"}

\* the continuation of either fetch of /suggest, for pending request i
SuggestResponse(c, i, outcome) ==
  LET req == c.pendingSuggest[i]
      rest == SeqFilter(c.pendingSuggest, (1..Len(c.pendingSuggest)) \ {i})
      results == SuggestBackend(req.word)
      db == [n \in 1..Len(results) |-> [value |-> results[n].value, source |-> "database"]]
      allSuggestions ==
        IF req.kind = "click"
        THEN IF outcome = "ok" THEN req.base \o db ELSE req.base
        ELSE IF outcome = "ok" THEN db
        ELSE IF outcome = "not_ok"
          THEN << [value |-> <<"No alternatives found">>, source |-> "error"] >>
        ELSE << [value |-> <<"Error loading alternatives">>, source |-> "error"] >>
  IN  [c EXCEPT !.pendingSuggest = rest,
                !.suggestions = allSuggestions,
                !.showSuggestions = TRUE]

(***************************************************************************)
(* handleSuggestionSelect and handleIgnoreTerm: the span reconciler.       *)
(***************************************************************************)
\* the test that finds the selected term in a list
IsSelected(t, sel) == t.start = sel.start /\ t.end = sel.end /\ t.term = sel.term

\* the tag handleSuggestionSelect gives the term it replaced
CorrectedSource == IF variant = "confusion" THEN "user_corrected" ELSE "llm_corrected"

\* {...t, term, start, end, is_correct: true, needs_correction: false, source}
CorrectedTerm(t, sel, replacementText) ==
  [t EXCEPT !.term = replacementText,
            !.start = sel.start,
            !.end = sel.start + Len(replacementText),
            !.is_correct = TRUE,
            !.needs_correction = FALSE,
            !.source = CorrectedSource]

\* the new object pushed for a selected drug-confusion match
CorrectedMatch(sel, replacementText) ==
  Term(replacementText, sel.start, sel.start + Len(replacementText), TRUE, FALSE,
       "user_corrected", "corrected", <<>>, <<>>)

\* a faulty shift that moves only the end of the span
ShiftedEndOnly(t, delta) == [t EXCEPT !.end = @ + delta]

ShiftedTerm(t, delta) == [t EXCEPT !.start = @ + delta, !.end = @ + delta]

\* a faulty pass that keeps a term overlapping the replaced range where it was
ReconciledKeepingOverlap(t, sel, replacementText) ==
  LET delta == Len(replacementText) - (sel.end - sel.start)
  IN  IF IsSelected(t, sel) THEN <<CorrectedTerm(t, sel, replacementText)>>
      ELSE IF t.start >= sel.end THEN <<ShiftedTerm(t, delta)>>
      ELSE <<t>>

\* what one pass of the loop pushes for term t: nothing for an overlap
ReconciledTerm(t, sel, replacementText) ==
  LET delta == Len(replacementText) - (sel.end - sel.start)
  IN  IF IsSelected(t, sel) THEN <<CorrectedTerm(t, sel, replacementText)>>
      ELSE IF t.end <= sel.start THEN <<t>>
      ELSE IF t.start >= sel.end THEN <<ShiftedTerm(t, delta)>>
      ELSE <<>>

RECURSIVE ReconciledTerms(_, _, _)
ReconciledTerms(terms, sel, replacementText) ==
  IF terms = <<>> THEN <<>>
  ELSE ReconciledTerms(SubSeq(terms, 1, Len(terms) - 1), sel, replacementText)
       \o ReconciledTerm(terms[Len(terms)], sel, replacementText)

\* the loop over confusionMatches: <<pushed to newTerms, pushed to newConfusionMatches>>
ReconciledMatch(m, sel, replacementText) ==
  LET delta == Len(replacementText) - (sel.end - sel.start)
  IN  IF IsSelected(m, sel) THEN << <<CorrectedMatch(sel, replacementText)>>, <<>> >>
      ELSE IF m.end <= sel.start THEN << <<>>, <<m>> >>
      ELSE IF m.start >= sel.end THEN << <<>>, <<ShiftedTerm(m, delta)>> >>
      ELSE << <<>>, <<>> >>

RECURSIVE ReconciledMatches(_, _, _)
ReconciledMatches(matches, sel, replacementText) ==
  IF matches = <<>> THEN << <<>>, <<>> >>
  ELSE LET front == ReconciledMatches(SubSeq(matches, 1, Len(matches) - 1), sel, replacementText)
           last == ReconciledMatch(matches[Len(matches)], sel, replacementText)
       IN  <<front[1] \o last[1], front[2] \o last[2]>>

\* newText = beforeText + replacementText + afterText
ReplacedText(t, sel, replacementText) ==
  Substring(t, 0, sel.start) \o replacementText \o SubstringFrom(t, sel.end)

\* history: the requests under way have been overtaken by a correction
Overtaken(c) ==
  [c EXCEPT !.inflight = [i \in 1..Len(@) |-> [@[i] EXCEPT !.overtaken = TRUE]]]

\* handleSuggestionSelect: the checker state it sets
HandleSuggestionSelect(c, replacementText) ==
  IF c.selectedTerm # <<>> THEN
    LET sel == c.selectedTerm[1]
        newTerms == ReconciledTerms(c.medicalTerms, sel, replacementText)
        fromMatches == ReconciledMatches(c.confusionMatches, sel, replacementText)
    IN  [c EXCEPT !.medicalTerms =
                    IF variant = "confusion" THEN newTerms \o fromMatches[1] ELSE newTerms,
                  !.confusionMatches = IF variant = "confusion" THEN fromMatches[2] ELSE @,
                  !.showSuggestions = FALSE,
                  !.selectedTerm = <<>>,
                  !.showingAlternatives = FALSE]
  ELSE [c EXCEPT !.showSuggestions = FALSE,
                 !.selectedTerm = <<>>,
                 !.showingAlternatives = FALSE]

\* handleSuggestionSelect: the text it hands upstream
SuggestionSelectText(c, t, replacementText) ==
  IF c.selectedTerm # <<>>
  THEN ReplacedText(t, c.selectedTerm[1], replacementText)
  ELSE replacementText

\* a faulty mark that flags the term correct and leaves its source
IgnoredKeepingSource(t) == [t EXCEPT !.is_correct = TRUE, !.needs_correction = FALSE]

\* {...t, is_correct: true, needs_correction: false, source: 'user_corrected'}
IgnoredTerm(t) ==
  [t EXCEPT !.is_correct = TRUE, !.needs_correction = FALSE, !.source = "user_corrected"]

\* handleIgnoreTerm (only the revision with the drug-confusion scan has it)
HandleIgnoreTerm(c) ==
  IF c.selectedTerm = <<>> THEN c
  ELSE
    LET sel == c.selectedTerm[1]
        termProcessed == \E i \in 1..Len(c.medicalTerms) : IsSelected(c.medicalTerms[i], sel)
        marked == [i \in 1..Len(c.medicalTerms) |->
                     IF IsSelected(c.medicalTerms[i], sel)
                     THEN IgnoredTerm(c.medicalTerms[i]) ELSE c.medicalTerms[i]]
        hit == {i \in 1..Len(c.confusionMatches) : IsSelected(c.confusionMatches[i], sel)}
        \* one new term per selected match, unless the spell-check list had it
        moved == IF termProcessed THEN <<>>
                 ELSE [n \in 1..Cardinality(hit) |->
                         Term(sel.term, sel.start, sel.end, TRUE, FALSE,
                              "user_corrected", "corrected", <<>>, <<>>)]
    IN  [c EXCEPT !.medicalTerms = marked \o moved,
                  !.confusionMatches = SeqFilter(@, (1..Len(@)) \ hit),
                  !.showSuggestions = FALSE,
                  !.selectedTerm = <<>>,
                  !.showingAlternatives = FALSE]

\* a faulty confirmation that posts the first term of the list
AddMedicineFirstTerm(c, confirmed) ==
  IF c.medicalTerms # <<>> /\ confirmed THEN <<c.medicalTerms[1].term>> ELSE <<>>

\* handleConfirmTerm: the terms it posts to /add-medicine
AddMedicine(c, confirmed) ==
  IF c.selectedTerm # <<>> /\ confirmed THEN <<c.selectedTerm[1].term>> ELSE <<>>

\* handleConfirmTerm: closes the popup (the POST /add-medicine changes no
\* state of the front end)
HandleConfirmTerm(c) ==
  [c EXCEPT !.showSuggestions = FALSE, !.selectedTerm = <<>>, !.showingAlternatives = FALSE]

(***************************************************************************)
(* The state machine.                                                      *)
(***************************************************************************)
Variants == {"confusion", "basic"}
Hosts == {"TextArea", "SOAPField"}

\* op while the last step was no accept, ignore or confirm
NoOp == [name |-> "none", selected |-> <<>>, arg |-> <<>>, emitted |-> <<>>,
         fromTerms |-> <<>>, fromConfusionMatches |-> <<>>,
         newTerms |-> <<>>, newConfusionMatches |-> <<>>,
         posted |-> <<>>]

\* the requests a step from the mounted instance `from` to `c` has issued
Issued(from, c) == IF Len(c.inflight) > Len(from.inflight) THEN Len(c.inflight) - Len(from.inflight) ELSE 0

\* the checker components mounted on the page
LegendComponents == 1..MaxComponents

\* no legend opened yet: useState(false), useState(null), no window property
LegendStart ==
  /\ showLegend = [k \in LegendComponents |-> FALSE]
  /\ nlpStatus = [k \in LegendComponents |-> <<>>]
  /\ medicalNlpStatusCache = <<>>
  /\ medicalNlpStatusPromise = <<>>
  /\ nlpInflight = {}
  /\ nlpSent = 0
  /\ nlpSucceeded = FALSE

\* the debounced checker after its mount on an empty text: the debounce
\* effect has run once and its timer is pending
DebounceStart ==
  /\ debouncedText = <<>>
  /\ debouncedTerms = <<>>
  /\ debouncedChecking = FALSE
  /\ debouncedCache = <<>>
  /\ checkTimeoutRef = <<1>>
  /\ timers = {[id |-> 1, text |-> <<>>, termCache |-> <<>>]}
  /\ timerIds = 1
  /\ debouncedInflight = <<>>
  /\ textChanges = 0
  /\ sentSinceChange = 0

\* the useState initial values of SOAPRecorder
RecorderStart ==
  /\ soapNote = 0
  /\ isProcessing = FALSE
  /\ isEditingSOAP = FALSE
  /\ userAgreement = FALSE
  /\ showAuthForm = FALSE
  /\ username = <<>>
  /\ password = <<>>
  /\ isAuthenticated = FALSE
  /\ authError = ""
  /\ agreedNote = 0
  /\ authenticatedNote = 0

Init ==
  /\ variant \in Variants
  /\ host \in Hosts
  /\ text \in Texts
  /\ isEditing = FALSE
  /\ checkNow = FALSE
  /\ checkVersion = 0
  /\ lastProcessedCheckNowRef = FreshChecker(0).lastProcessedCheckNowRef
  /\ lastProcessedVersionRef = FreshChecker(0).lastProcessedVersionRef
  /\ medicalTerms = FreshChecker(0).medicalTerms
  /\ confusionMatches = FreshChecker(0).confusionMatches
  /\ selectedTerm = FreshChecker(0).selectedTerm
  /\ suggestions = FreshChecker(0).suggestions
  /\ showSuggestions = FreshChecker(0).showSuggestions
  /\ showingAlternatives = FreshChecker(0).showingAlternatives
  /\ isChecking = FreshChecker(0).isChecking
  /\ uniqueTermCount = FreshChecker(0).uniqueTermCount
  /\ totalOccurrences = FreshChecker(0).totalOccurrences
  /\ termCache = FreshChecker(0).termCache
  /\ cacheUse = FreshChecker(0).cacheUse
  /\ inflight = FreshChecker(0).inflight
  /\ pendingSuggest = FreshChecker(0).pendingSuggest
  /\ lastRequested = FreshChecker(0).lastRequested
  /\ requests = 0
  /\ op = NoOp
  /\ RecorderStart
  /\ LegendStart
  /\ DebounceStart

\* a render of the host with the given props, after a handler left the
\* mounted instance (if any) in state c
Render(c, editing, now, version, t) ==
  LET wasMounted == Mounted
      from == IF wasMounted /\ MountedWith(host, editing, t) THEN c
              ELSE FreshChecker(VersionProp(host, version))
      next == Rendered(c, wasMounted, host, editing, now, version, t)
  IN  /\ requests + Issued(from, next) <= MaxRequests
      /\ requests' = requests + Issued(from, next)
      /\ Install(next)
      /\ isEditing' = editing
      /\ checkNow' = now
      /\ checkVersion' = version
      /\ text' = t

\* a handler of the mounted instance that causes no render of the host
HandledWithin(c, maxPending) ==
  /\ Mounted
  /\ Len(c.pendingSuggest) <= maxPending
  /\ Install(c)
  /\ UNCHANGED <<text, isEditing, checkNow, checkVersion, requests>>

Handled(c) == HandledWithin(c, MaxPendingSuggest)

\* the parent's "Check ... Spelling" button: setCheck...Now(v => !v); the
\* press is a mouse press outside the popup
PressCheck ==
  /\ Render(HandleClickOutside(Checker), isEditing, ~checkNow, checkVersion, text)
  /\ op' = NoOp
  /\ UNCHANGED <<variant, host, recorderVars, legendVars, debounceVars>>

\* a caller of SpellCheckedTextArea changes its checkVersion prop
BumpVersion ==
  /\ host = "TextArea"
  /\ checkVersion < MaxVersion
  /\ Render(Checker, isEditing, checkNow, checkVersion + 1, text)
  /\ op' = NoOp
  /\ UNCHANGED <<variant, host, recorderVars, legendVars, debounceVars>>

\* the responses of a resolution arrive, in any order among the requests
ResolutionArrivesWith(outcomes) ==
  \E i \in 1..Len(inflight), outcome \in outcomes :
    /\ Handled(ResolveResponse(Checker, i, outcome))
    /\ op' = NoOp
    /\ UNCHANGED <<variant, host, recorderVars, legendVars, debounceVars>>

ResolutionArrives == ResolutionArrivesWith(Outcomes)

\* the user clicks a highlighted term (a mouse press outside the popup)
TermClickWithin(maxPending) ==
  \E term \in Range(SortedTerms(Checker)) :
    /\ Substring(text, term.start, term.end) # <<>>
    /\ HandledWithin(HandleTermClick(HandleClickOutside(Checker), term), maxPending)
    /\ op' = NoOp
    /\ UNCHANGED <<variant, host, recorderVars, legendVars, debounceVars>>

TermClick == TermClickWithin(MaxPendingSuggest)

\* the response of a /suggest request arrives
SuggestArrives ==
  \E i \in 1..Len(pendingSuggest), outcome \in SuggestOutcomes :
    /\ Handled(SuggestResponse(Checker, i, outcome))
    /\ op' = NoOp
    /\ UNCHANGED <<variant, host, recorderVars, legendVars, debounceVars>>

\* the user clicks a listed suggestion: handleSuggestionSelect, the host's
\* handler for the new text, and the render that follows
SuggestionSelect ==
  \E replacementText \in ListedSuggestions(Checker) :
    LET newText == SuggestionSelectText(Checker, text, replacementText)
        c == HandleSuggestionSelect(Checker, replacementText)
        \* SpellCheckedSOAPField's handleSuggestionSelect enters edit mode
        editing == host = "SOAPField" /\ selectedTerm # <<>>
    IN  /\ Mounted
        /\ PopupShown(Checker)
        /\ ~ConfirmMode(Checker)
        /\ Len(newText) <= MaxTextLen
        /\ Render(Overtaken(c), editing, checkNow, checkVersion, newText)
        /\ op' = [name |-> "accept", selected |-> selectedTerm, arg |-> <<replacementText>>, emitted |-> <<newText>>,
                  fromTerms |-> medicalTerms, fromConfusionMatches |-> confusionMatches,
                  newTerms |-> c.medicalTerms, newConfusionMatches |-> c.confusionMatches,
                  posted |-> <<>>]
        /\ UNCHANGED <<variant, host, recorderVars, legendVars, debounceVars>>

\* the user clicks "Ignore (keep original)"
IgnoreTerm ==
  LET c == HandleIgnoreTerm(Checker)
  IN  /\ variant = "confusion"
      /\ PopupShown(Checker)
      /\ ~ConfirmMode(Checker)
      /\ selectedTerm # <<>>
      /\ Handled(Overtaken(c))
      /\ op' = [name |-> "ignore", selected |-> selectedTerm, arg |-> <<>>, emitted |-> <<>>,
                fromTerms |-> medicalTerms, fromConfusionMatches |-> confusionMatches,
                newTerms |-> c.medicalTerms, newConfusionMatches |-> c.confusionMatches,
                posted |-> <<>>]
      /\ UNCHANGED <<variant, host, recorderVars, legendVars, debounceVars>>

\* the user answers "Yes": handleConfirmTerm(true) posts the term to
\* /add-medicine and closes the popup
ConfirmTerm ==
  /\ PopupShown(Checker)
  /\ ConfirmMode(Checker)
  /\ Handled(HandleConfirmTerm(Checker))
  /\ op' = [NoOp EXCEPT !.name = "confirm", !.selected = selectedTerm,
                         !.posted = AddMedicine(Checker, TRUE)]
  /\ UNCHANGED <<variant, host, recorderVars, legendVars, debounceVars>>

\* the user answers "No, show alternatives"
ShowAlternatives ==
  /\ PopupShown(Checker)
  /\ ConfirmMode(Checker)
  /\ Handled(HandleShowAlternatives(Checker))
  /\ op' = NoOp
  /\ UNCHANGED <<variant, host, recorderVars, legendVars, debounceVars>>

\* a mouse press elsewhere on the page
ClickOutside ==
  /\ PopupShown(Checker)
  /\ Handled(HandleClickOutside(Checker))
  /\ op' = NoOp
  /\ UNCHANGED <<variant, host, recorderVars, legendVars, debounceVars>>

\* the host enters edit mode (the Edit button, the parent's isEditing prop)
EditClick ==
  /\ ~isEditing
  /\ Render(Checker, TRUE, checkNow, checkVersion, text)
  /\ op' = NoOp
  /\ UNCHANGED <<variant, host, recorderVars, legendVars, debounceVars>>

\* handleBlur: the textarea loses focus and the host returns to view mode
Blur ==
  /\ isEditing
  /\ Render(Checker, FALSE, checkNow, checkVersion, text)
  /\ op' = NoOp
  /\ UNCHANGED <<variant, host, recorderVars, legendVars, debounceVars>>

\* the value prop changes: typing in edit mode, a new transcript, a new note
SetTextFrom(texts) ==
  \E t \in texts \ {text} :
    /\ Render(Checker, isEditing, checkNow, checkVersion, t)
    /\ op' = NoOp
    /\ UNCHANGED <<variant, host, recorderVars, legendVars, debounceVars>>

SetText == SetTextFrom(Texts)

Next ==
  \/ PressCheck
  \/ ResolutionArrives
  \/ TermClick
  \/ SuggestArrives
  \/ SuggestionSelect
  \/ IgnoreTerm
  \/ ConfirmTerm
  \/ ShowAlternatives
  \/ ClickOutside
  \/ EditClick
  \/ Blur
  \/ SetText

\* the program as SOAPRecorder drives it: it never passes checkVersion
Spec == Init /\ [][Next]_vars

\* the program under a caller that also uses the numeric trigger
NextVersion == Next \/ BumpVersion

SpecVersion == Init /\ [][NextVersion]_vars

(***************************************************************************)
(* The cache of a checker that has resolved many texts.                    *)
(***************************************************************************)
\* the checker variables hold the state c
StartsAs(c) ==
  /\ lastProcessedCheckNowRef = c.lastProcessedCheckNowRef
  /\ lastProcessedVersionRef = c.lastProcessedVersionRef
  /\ medicalTerms = c.medicalTerms
  /\ confusionMatches = c.confusionMatches
  /\ selectedTerm = c.selectedTerm
  /\ suggestions = c.suggestions
  /\ showSuggestions = c.showSuggestions
  /\ showingAlternatives = c.showingAlternatives
  /\ isChecking = c.isChecking
  /\ uniqueTermCount = c.uniqueTermCount
  /\ totalOccurrences = c.totalOccurrences
  /\ termCache = c.termCache
  /\ cacheUse = c.cacheUse
  /\ inflight = c.inflight
  /\ pendingSuggest = c.pendingSuggest
  /\ lastRequested = c.lastRequested

\* the i-th of the texts resolved earlier: the two digits of the number i - 1
Digit(n) == <<"0", "1", "2", "3", "4", "5", "6", "7", "8", "9">>[n + 1]
KeyText(i) == <<Digit(((i - 1) \div 10) % 10), Digit((i - 1) % 10)>>

\* the cache after the resolutions of the first n of these texts, none of
\* them served again since
FilledCache(n) ==
  [i \in 1..n |-> [key |-> CacheKey(KeyText(i)),
                   data |-> CheckMedicalTermsBackend(KeyText(i)),
                   expired |-> FALSE]]

FilledCacheUse(n) == [i \in 1..n |-> CacheKey(KeyText(i))]

\* the texts the parent supplies next: the oldest of the cached ones, two
\* texts not resolved before, and texts without a character to check
CacheTexts == {KeyText(1), TextDBA, <<"b">>, <<" ">>, <<>>}

\* a mounted checker whose cache is one short of its limit, or full
InitCache ==
  /\ \E n \in {CACHE_LIMIT - 1, CACHE_LIMIT} :
       StartsAs([FreshChecker(0) EXCEPT !.termCache = FilledCache(n),
                                        !.cacheUse = FilledCacheUse(n)])
  /\ variant \in Variants
  /\ host \in Hosts
  /\ text \in CacheTexts \ {<<>>}
  /\ isEditing = FALSE
  /\ checkNow = FALSE
  /\ checkVersion = 0
  /\ requests = 0
  /\ op = NoOp
  /\ RecorderStart
  /\ LegendStart
  /\ DebounceStart

\* the responses of a resolution arrive, a body without results included
AnyBodyArrives == ResolutionArrivesWith(CacheOutcomes)

SetCacheText == SetTextFrom(CacheTexts)

NextCache ==
  \/ PressCheck
  \/ AnyBodyArrives
  \/ SetCacheText

SpecCache == InitCache /\ [][NextCache]_vars

(***************************************************************************)
(* The cache as time passes.                                               *)
(***************************************************************************)
\* the entries now in the cache outlive their time-to-live
EntriesExpire ==
  /\ {i \in 1..Len(termCache) : ~termCache[i].expired} # {}
  /\ Handled([Checker EXCEPT
               !.termCache = [i \in 1..Len(@) |-> [@[i] EXCEPT !.expired = TRUE]]])
  /\ op' = NoOp
  /\ UNCHANGED <<variant, host, recorderVars, legendVars, debounceVars>>

NextExpiry ==
  \/ PressCheck
  \/ ResolutionArrives
  \/ SetText
  \/ EntriesExpire

SpecExpiry == Init /\ [][NextExpiry]_vars

(***************************************************************************)
(* The classification of the terms a resolution can return.                *)
(***************************************************************************)
\* the provenance tags of the backend
BackendSources ==
  {"dynamic_list", "local_dictionary", "snomed_ct", "llm_identified_snomed_timeout",
   "llm_identified"}

TextA == <<"a">>

\* the term a resolution of the text "a" returns, by tag and flags
ResolvedTerm(source, isCorrect, needsCorrection) ==
  Term(TextA, 0, 1, isCorrect, needsCorrection, source, "medication",
       IF needsCorrection THEN << <<"a", "a">> >> ELSE <<>>, <<>>)

\* the response of that resolution
ResolvedData(term) == [results |-> <<term>>, unique_count |-> 1, total_occurrences |-> 1]

\* a mounted checker after the check button was pressed and the response
\* with one term arrived
InitClassify ==
  /\ variant \in Variants
  /\ host \in Hosts
  /\ text = TextA
  /\ isEditing = FALSE
  /\ checkNow = TRUE
  /\ checkVersion = 0
  /\ \E source \in BackendSources, isCorrect \in BOOLEAN, needsCorrection \in BOOLEAN :
       LET term == ResolvedTerm(source, isCorrect, needsCorrection)
       IN  StartsAs([FreshChecker(0) EXCEPT
                       !.lastProcessedCheckNowRef = TRUE,
                       !.medicalTerms = <<term>>,
                       !.uniqueTermCount = 1,
                       !.totalOccurrences = 1,
                       !.termCache = MapSet(<<>>, CacheKey(TextA), ResolvedData(term)),
                       !.cacheUse = <<CacheKey(TextA)>>,
                       !.lastRequested = <<>>])
  /\ requests = 1
  /\ op = NoOp
  /\ RecorderStart
  /\ LegendStart
  /\ DebounceStart

NextClassify ==
  \/ TermClick
  \/ SuggestArrives
  \/ ConfirmTerm
  \/ ShowAlternatives
  \/ ClickOutside

SpecClassify == InitClassify /\ [][NextClassify]_vars

(***************************************************************************)
(* The cache under texts that share one cache key.                         *)
(***************************************************************************)
\* a word, the word after a blank, and the word in upper case
KeyTexts == {<<"b">>, <<" ", "b">>, <<"B">>}

InitKey ==
  /\ variant \in Variants
  /\ host \in Hosts
  /\ text \in KeyTexts
  /\ isEditing = FALSE
  /\ checkNow = FALSE
  /\ checkVersion = 0
  /\ StartsAs(FreshChecker(0))
  /\ requests = 0
  /\ op = NoOp
  /\ RecorderStart
  /\ LegendStart
  /\ DebounceStart

NextKey ==
  \/ PressCheck
  \/ ResolutionArrives
  \/ SetTextFrom(KeyTexts)

SpecKey == InitKey /\ [][NextKey]_vars

(***************************************************************************)
(* The legend and the NLP status it shows, shared through the window.      *)
(***************************************************************************)
\* fetchNlpStatus without the test for a request in flight
FetchNlpStatusUnshared(k) ==
  IF medicalNlpStatusCache # <<>>
  THEN /\ nlpStatus' = [nlpStatus EXCEPT ![k] = medicalNlpStatusCache]
       /\ UNCHANGED <<medicalNlpStatusCache, medicalNlpStatusPromise, nlpInflight, nlpSent>>
  ELSE /\ nlpSent < MaxNlpRequests
       /\ nlpSent' = nlpSent + 1
       /\ medicalNlpStatusPromise' = <<nlpSent + 1>>
       /\ nlpInflight' = nlpInflight \cup {[id |-> nlpSent + 1, owner |-> k, waiting |-> {}]}
       /\ UNCHANGED <<nlpStatus, medicalNlpStatusCache>>

\* fetchNlpStatus of component k, up to its fetch
FetchNlpStatus(k) ==
  IF medicalNlpStatusCache # <<>>
  THEN /\ nlpStatus' = [nlpStatus EXCEPT ![k] = medicalNlpStatusCache]
       /\ UNCHANGED <<medicalNlpStatusCache, medicalNlpStatusPromise, nlpInflight, nlpSent>>
  ELSE IF medicalNlpStatusPromise # <<>>
  THEN /\ nlpInflight' = {IF r.id = medicalNlpStatusPromise[1]
                            THEN [r EXCEPT !.waiting = @ \cup {k}] ELSE r : r \in nlpInflight}
       /\ UNCHANGED <<nlpStatus, medicalNlpStatusCache, medicalNlpStatusPromise, nlpSent>>
  ELSE /\ nlpSent < MaxNlpRequests
       /\ nlpSent' = nlpSent + 1
       /\ medicalNlpStatusPromise' = <<nlpSent + 1>>
       /\ nlpInflight' = nlpInflight \cup {[id |-> nlpSent + 1, owner |-> k, waiting |-> {}]}
       /\ UNCHANGED <<nlpStatus, medicalNlpStatusCache>>

\* the legend-toggle button of component k, and the effect on showLegend
ToggleLegend ==
  \E k \in LegendComponents :
    /\ showLegend' = [showLegend EXCEPT ![k] = ~@]
    /\ IF ~showLegend[k]
       THEN FetchNlpStatus(k)
       ELSE UNCHANGED <<nlpStatus, medicalNlpStatusCache, medicalNlpStatusPromise,
                        nlpInflight, nlpSent>>
    /\ UNCHANGED <<nlpSucceeded, variant, host, text, isEditing, checkNow, checkVersion,
                   checkerVars, requests, op, recorderVars, debounceVars>>

\* the response of a GET /medical-nlp-status request arrives with a status
NlpStatusArrives ==
  \E r \in nlpInflight, status \in {[available |-> TRUE], [available |-> FALSE]} :
    /\ medicalNlpStatusCache' = <<status>>
    /\ nlpStatus' = [k \in LegendComponents |->
                       IF k = r.owner \/ k \in r.waiting THEN <<status>> ELSE nlpStatus[k]]
    /\ medicalNlpStatusPromise' = <<>>
    /\ nlpInflight' = nlpInflight \ {r}
    /\ nlpSucceeded' = TRUE
    /\ UNCHANGED <<showLegend, nlpSent, variant, host, text, isEditing, checkNow,
                   checkVersion, checkerVars, requests, op, recorderVars, debounceVars>>

\* a GET /medical-nlp-status request fails: a non-OK response, a network error
NlpStatusFails ==
  \E r \in nlpInflight :
    /\ medicalNlpStatusPromise' = <<>>
    /\ nlpInflight' = nlpInflight \ {r}
    /\ UNCHANGED <<showLegend, nlpStatus, medicalNlpStatusCache, nlpSent, nlpSucceeded,
                   variant, host, text, isEditing, checkNow, checkVersion, checkerVars,
                   requests, op, recorderVars, debounceVars>>

NextLegend ==
  \/ ToggleLegend
  \/ NlpStatusArrives
  \/ NlpStatusFails

\* the page at its first mount, no text entered
InitAtMount == Init /\ variant = "basic" /\ host = "SOAPField" /\ text = <<>>

SpecLegend == InitAtMount /\ [][NextLegend]_vars

(***************************************************************************)
(* The debounced checker of SpellCheckedSOAPField.js: the debounce effect  *)
(* with dependencies [text, checkMedicalTerms], and checkMedicalTerms      *)
(* with dependencies [enabled, BACKEND_URL, termCache].                    *)
(***************************************************************************)
\* the effect's cleanup and body: clearTimeout(checkTimeoutRef.current), then
\* a new timer that closes over the text and the callback of this render
DebounceEffect(newText, newCache) ==
  /\ timerIds' = timerIds + 1
  /\ checkTimeoutRef' = <<timerIds + 1>>
  /\ timers' = {tm \in timers : checkTimeoutRef = <<>> \/ tm.id # checkTimeoutRef[1]}
                 \cup {[id |-> timerIds + 1, text |-> newText, termCache |-> newCache]}

\* the text prop changes
DebouncedSetText ==
  \E t \in {<<>>, <<"a">>, <<"b">>} \ {debouncedText} :
    /\ textChanges < MaxTextChanges
    /\ textChanges' = textChanges + 1
    /\ debouncedText' = t
    /\ sentSinceChange' = 0
    /\ DebounceEffect(t, debouncedCache)
    /\ UNCHANGED <<debouncedTerms, debouncedChecking, debouncedCache, debouncedInflight,
                   variant, host, text, isEditing, checkNow, checkVersion, checkerVars,
                   requests, op, recorderVars, legendVars>>

\* a timer fires: checkMedicalTerms(text) of the render that set it, up to
\* its fetch
TimerFires ==
  \E tm \in timers :
    LET textToCheck == tm.text
        cacheKey == ToLowerCase(Trim(textToCheck))
    IN  /\ timers' = timers \ {tm}
        /\ IF ~enabled \/ textToCheck = <<>> \/ Trim(textToCheck) = <<>>
           THEN /\ debouncedTerms' = <<>>
                /\ UNCHANGED <<debouncedChecking, debouncedInflight, sentSinceChange>>
           ELSE IF CacheHas(tm.termCache, cacheKey)
           THEN /\ debouncedTerms' = CacheGet(tm.termCache, cacheKey)
                /\ UNCHANGED <<debouncedChecking, debouncedInflight, sentSinceChange>>
           ELSE /\ Len(debouncedInflight) + sentSinceChange < MaxDebouncedRequests
                /\ debouncedChecking' = TRUE
                /\ debouncedInflight' =
                     Append(debouncedInflight, [text |-> textToCheck, cacheKey |-> cacheKey])
                /\ sentSinceChange' = sentSinceChange + 1
                /\ UNCHANGED debouncedTerms
        /\ UNCHANGED <<debouncedText, debouncedCache, checkTimeoutRef, timerIds, textChanges,
                       variant, host, text, isEditing, checkNow, checkVersion, checkerVars,
                       requests, op, recorderVars, legendVars>>

\* the response of request i arrives with status 200: the cache is replaced
\* by a new Map, so checkMedicalTerms is a new callback and the effect runs
DebouncedResponseOk ==
  \E i \in 1..Len(debouncedInflight) :
    LET req == debouncedInflight[i]
        results == CheckMedicalTermsBackend(req.text).results
        newCache == CacheInsert(debouncedCache, req.cacheKey, results)
    IN  /\ debouncedInflight' = SeqFilter(debouncedInflight, (1..Len(debouncedInflight)) \ {i})
        /\ debouncedCache' = newCache
        /\ debouncedTerms' = results
        /\ debouncedChecking' = FALSE
        /\ DebounceEffect(debouncedText, newCache)
        /\ UNCHANGED <<debouncedText, textChanges, sentSinceChange,
                       variant, host, text, isEditing, checkNow, checkVersion, checkerVars,
                       requests, op, recorderVars, legendVars>>

\* the response is not OK, or the fetch rejects: only the finally runs
DebouncedResponseFails ==
  \E i \in 1..Len(debouncedInflight) :
    /\ debouncedInflight' = SeqFilter(debouncedInflight, (1..Len(debouncedInflight)) \ {i})
    /\ debouncedChecking' = FALSE
    /\ UNCHANGED <<debouncedText, debouncedTerms, debouncedCache, checkTimeoutRef, timers,
                   timerIds, textChanges, sentSinceChange,
                   variant, host, text, isEditing, checkNow, checkVersion, checkerVars,
                   requests, op, recorderVars, legendVars>>

NextDebounce ==
  \/ DebouncedSetText
  \/ TimerFires
  \/ DebouncedResponseOk
  \/ DebouncedResponseFails

SpecDebounce == InitAtMount /\ [][NextDebounce]_vars

(***************************************************************************)
(* The popup while terms are clicked one after the other, each click       *)
(* sending its own /suggest request.                                       *)
(***************************************************************************)
InitPopup ==
  /\ variant \in Variants
  /\ host \in Hosts
  /\ text = TextDBA
  /\ isEditing = FALSE
  /\ checkNow = FALSE
  /\ checkVersion = 0
  /\ StartsAs(FreshChecker(0))
  /\ requests = 0
  /\ op = NoOp
  /\ RecorderStart
  /\ LegendStart
  /\ DebounceStart

NextPopup ==
  \/ PressCheck
  \/ ResolutionArrives
  \/ TermClickWithin(MaxPendingClicks)
  \/ SuggestArrives
  \/ ClickOutside

SpecPopup == InitPopup /\ [][NextPopup]_vars

(***************************************************************************)
(* The span reconciler on texts whose drug name is found by the spell      *)
(* check and by the drug-confusion scan alike.                             *)
(***************************************************************************)
InitReconcile ==
  /\ variant \in Variants
  /\ host \in Hosts
  /\ text \in {<<"d">>, <<"d", " ", "a">>, TextDBA}
  /\ isEditing = FALSE
  /\ checkNow = FALSE
  /\ checkVersion = 0
  /\ StartsAs(FreshChecker(0))
  /\ requests = 0
  /\ op = NoOp
  /\ RecorderStart
  /\ LegendStart
  /\ DebounceStart

NextReconcile ==
  \/ PressCheck
  \/ ResolutionArrives
  \/ TermClick
  \/ SuggestArrives
  \/ SuggestionSelect
  \/ IgnoreTerm
  \/ ClickOutside

SpecReconcile == InitReconcile /\ [][NextReconcile]_vars

(***************************************************************************)
(* SOAPRecorder: the agreement, the authentication and the download        *)
(* buttons.                                                                *)
(***************************************************************************)
\* what the user types into the username and the password field
Credentials == {<<>>, <<" ">>, <<"u">>}

\* the agreement box and the authentication form are rendered
AgreementShown == soapNote # 0 /\ ~isEditingSOAP
AuthFormShown == AgreementShown /\ showAuthForm /\ ~isAuthenticated

\* disabled={!userAgreement || !isAuthenticated} on buttons that are rendered
DownloadEnabled == soapNote # 0 /\ ~isEditingSOAP /\ userAgreement /\ isAuthenticated

\* generateSOAPNote up to its fetch
GenerateSOAPNote ==
  /\ ~isProcessing
  /\ soapNote < MaxNotes
  /\ host = "TextArea" => Trim(text) # <<>>
  /\ isProcessing' = TRUE
  /\ Render(Checker, isEditing, FALSE, checkVersion, text)
  /\ op' = NoOp
  /\ UNCHANGED <<legendVars, debounceVars, variant, host, soapNote, isEditingSOAP, userAgreement, showAuthForm,
                 username, password, isAuthenticated, authError, agreedNote,
                 authenticatedNote>>

\* generateSOAPNote once /generate-soap has answered, or has failed
GenerateResponse ==
  /\ isProcessing
  /\ \E ok \in BOOLEAN :
       IF ok
       THEN /\ soapNote' = soapNote + 1
            /\ userAgreement' = FALSE
       ELSE UNCHANGED <<soapNote, userAgreement>>
  /\ isProcessing' = FALSE
  /\ UNCHANGED <<legendVars, debounceVars, variant, host, text, isEditing, checkNow, checkVersion, checkerVars,
                 requests, op, isEditingSOAP, showAuthForm, username, password,
                 isAuthenticated, authError, agreedNote, authenticatedNote>>

\* the onChange of the agreement checkbox
ToggleAgreement ==
  /\ AgreementShown
  /\ userAgreement' = ~userAgreement
  /\ IF userAgreement
     THEN /\ showAuthForm' = FALSE
          /\ isAuthenticated' = FALSE
          /\ username' = <<>>
          /\ password' = <<>>
          /\ authError' = ""
          /\ agreedNote' = 0
          /\ authenticatedNote' = 0
     ELSE /\ showAuthForm' = TRUE
          /\ agreedNote' = soapNote
          /\ UNCHANGED <<isAuthenticated, username, password, authError, authenticatedNote>>
  /\ UNCHANGED <<legendVars, debounceVars, variant, host, text, isEditing, checkNow, checkVersion, checkerVars,
                 requests, op, soapNote, isProcessing, isEditingSOAP>>

SetUsername ==
  /\ AuthFormShown
  /\ \E value \in Credentials \ {username} : username' = value
  /\ UNCHANGED <<legendVars, debounceVars, variant, host, text, isEditing, checkNow, checkVersion, checkerVars,
                 requests, op, soapNote, isProcessing, isEditingSOAP, userAgreement,
                 showAuthForm, password, isAuthenticated, authError, agreedNote,
                 authenticatedNote>>

SetPassword ==
  /\ AuthFormShown
  /\ \E value \in Credentials \ {password} : password' = value
  /\ UNCHANGED <<legendVars, debounceVars, variant, host, text, isEditing, checkNow, checkVersion, checkerVars,
                 requests, op, soapNote, isProcessing, isEditingSOAP, userAgreement,
                 showAuthForm, username, isAuthenticated, authError, agreedNote,
                 authenticatedNote>>

\* the Confirm button of the authentication form
ConfirmAuth ==
  /\ AuthFormShown
  /\ IF Trim(username) = <<>> \/ Trim(password) = <<>>
     THEN /\ authError' = "Please enter both username and password"
          /\ UNCHANGED <<isAuthenticated, showAuthForm, authenticatedNote>>
     ELSE /\ isAuthenticated' = TRUE
          /\ showAuthForm' = FALSE
          /\ authError' = ""
          /\ authenticatedNote' = soapNote
  /\ UNCHANGED <<legendVars, debounceVars, variant, host, text, isEditing, checkNow, checkVersion, checkerVars,
                 requests, op, soapNote, isProcessing, isEditingSOAP, userAgreement,
                 username, password, agreedNote>>

\* the Cancel button of the authentication form
CancelAuth ==
  /\ AuthFormShown
  /\ showAuthForm' = FALSE
  /\ userAgreement' = FALSE
  /\ username' = <<>>
  /\ password' = <<>>
  /\ authError' = ""
  /\ agreedNote' = 0
  /\ UNCHANGED <<legendVars, debounceVars, variant, host, text, isEditing, checkNow, checkVersion, checkerVars,
                 requests, op, soapNote, isProcessing, isEditingSOAP, isAuthenticated,
                 authenticatedNote>>

\* the Edit button of the note
EditSOAP ==
  /\ soapNote # 0
  /\ ~isEditingSOAP
  /\ isEditingSOAP' = TRUE
  /\ UNCHANGED <<legendVars, debounceVars, variant, host, text, isEditing, checkNow, checkVersion, checkerVars,
                 requests, op, soapNote, isProcessing, userAgreement, showAuthForm,
                 username, password, isAuthenticated, authError, agreedNote,
                 authenticatedNote>>

\* saveSOAPEdits: the Save button the Edit button turns into
SaveSOAPEdits ==
  /\ soapNote # 0
  /\ isEditingSOAP
  /\ isEditingSOAP' = FALSE
  /\ UNCHANGED <<legendVars, debounceVars, variant, host, text, isEditing, checkNow, checkVersion, checkerVars,
                 requests, op, soapNote, isProcessing, userAgreement, showAuthForm,
                 username, password, isAuthenticated, authError, agreedNote,
                 authenticatedNote>>

NextRecorder ==
  \/ GenerateSOAPNote
  \/ GenerateResponse
  \/ ToggleAgreement
  \/ SetUsername
  \/ SetPassword
  \/ ConfirmAuth
  \/ CancelAuth
  \/ EditSOAP
  \/ SaveSOAPEdits

SpecRecorder == Init /\ [][NextRecorder]_vars


(***************************************************************************)
(* Properties.                                                             *)
(***************************************************************************)
\* an accept step with a selected span: the step of SuggestionSelect in
\* which handleSuggestionSelect takes its first branch
AcceptStep == op'.name = "accept" /\ selectedTerm # <<>>

\* T is another span than the selected one
Other(T, S) == ~(T.start = S.start /\ T.end = S.end /\ T.term = S.term)

\* the members of list that are other spans than S and lie before it
SpansBefore(list, S) ==
  SeqFilter(list, {i \in 1..Len(list) : Other(list[i], S) /\ list[i].end <= S.start})

\* the members of list that are other spans than S and lie after it, moved by delta
SpansAfterMoved(list, S, delta) ==
  LET after == SeqFilter(list, {i \in 1..Len(list) : Other(list[i], S) /\ list[i].start >= S.end})
  IN  [i \in 1..Len(after) |->
         [after[i] EXCEPT !.start = after[i].start + delta, !.end = after[i].end + delta]]

\* C1: when replacement R is accepted for the selected span S = [start, end),
\* every other span that ends at or before start is in the list the handler
\* sets with all its fields unchanged, and every other span that starts at or
\* after end is in it with start and end increased by len(R) - (end - start)
\* and every other field unchanged; the same holds of the drug-confusion list.
C1_AcceptFrame ==
  [][AcceptStep =>
       LET S == selectedTerm[1]
           delta == Len(op'.arg[1]) - (S.end - S.start)
       IN  /\ SeqBag(SpansBefore(medicalTerms, S)) \sqsubseteq SeqBag(op'.newTerms)
           /\ SeqBag(SpansAfterMoved(medicalTerms, S, delta)) \sqsubseteq SeqBag(op'.newTerms)
           /\ variant = "confusion" =>
                /\ SeqBag(SpansBefore(confusionMatches, S))
                     \sqsubseteq SeqBag(op'.newConfusionMatches)
                /\ SeqBag(SpansAfterMoved(confusionMatches, S, delta))
                     \sqsubseteq SeqBag(op'.newConfusionMatches)]_vars

\* an accept of a replacement of another length than the selected span has
\* left a span before the replaced range and a moved span after it
C1_Witness ==
  /\ op.name = "accept" /\ op.selected # <<>>
  /\ Len(op.arg[1]) # op.selected[1].end - op.selected[1].start
  /\ \E i \in 1..Len(op.newTerms) :
       /\ op.newTerms[i].start >= op.selected[1].start + Len(op.arg[1])
       /\ op.newTerms[i].source # CorrectedSource
  /\ \E i \in 1..Len(op.newTerms) : op.newTerms[i].end <= op.selected[1].start


\* the selected span is one of the current lists and covers its term in the text
SelectionCurrent ==
  /\ selectedTerm # <<>>
  /\ \/ \E i \in 1..Len(medicalTerms) : ~Other(medicalTerms[i], selectedTerm[1])
     \/ variant = "confusion"
        /\ \E i \in 1..Len(confusionMatches) : ~Other(confusionMatches[i], selectedTerm[1])
  /\ 0 <= selectedTerm[1].start /\ selectedTerm[1].end <= Len(text)
  /\ SubSeq(text, selectedTerm[1].start + 1, selectedTerm[1].end) = selectedTerm[1].term

\* the text the accept step emits is text[0, start) + R + text[end, len)
AcceptEmitsReplacedText ==
  LET S == selectedTerm[1]
  IN  op'.emitted = <<SubSeq(text, 1, S.start) \o op'.arg[1] \o SubSeq(text, S.end + 1, Len(text))>>

\* the list the accept step sets holds S as term R at [start, start + len(R))
\* with the classification cls
AcceptTurnsSelectedInto(cls) ==
  LET S == selectedTerm[1]
      R == op'.arg[1]
  IN  \E i \in 1..Len(op'.newTerms) :
        /\ op'.newTerms[i].term = R
        /\ op'.newTerms[i].start = S.start
        /\ op'.newTerms[i].end = S.start + Len(R)
        /\ Classification(op'.newTerms[i]) = cls

\* C2: accepting replacement R for the selected span S = [start, end) of the
\* current list emits exactly text[0, start) + R + text[end, len) and turns S
\* into a span with term R, the same start, end = start + len(R) and the
\* classification UserCorrected.
C2_AcceptResult ==
  [][(AcceptStep /\ SelectionCurrent) =>
       (AcceptEmitsReplacedText /\ AcceptTurnsSelectedInto("UserCorrected"))]_vars

\* C2, the part that holds in both revisions: the emitted text, and S turned
\* into a span with term R at [start, start + len(R)) that the revision with the
\* drug-confusion scan classifies UserCorrected and the other one Correct.
C2_AcceptResultPerRevision ==
  [][(AcceptStep /\ SelectionCurrent) =>
       /\ AcceptEmitsReplacedText
       /\ AcceptTurnsSelectedInto(IF variant = "confusion" THEN "UserCorrected" ELSE "Correct")]_vars


\* the selected span is in none of the current lists
SelectionStale ==
  /\ selectedTerm # <<>>
  /\ \A i \in 1..Len(medicalTerms) : Other(medicalTerms[i], selectedTerm[1])
  /\ variant = "confusion" =>
       \A i \in 1..Len(confusionMatches) : Other(confusionMatches[i], selectedTerm[1])

\* C3: an accept or an ignore whose selected span is not in the current span
\* list is a no-op: the text stays as it is (nothing else is emitted
\* upstream) and the span lists the handler sets are the lists it found.
C3_StaleIsNoOp ==
  [][(op'.name \in {"accept", "ignore"} /\ SelectionStale) =>
       /\ text' = text
       /\ op'.emitted \in {<<>>, <<text>>}
       /\ op'.newTerms = medicalTerms
       /\ variant = "confusion" => op'.newConfusionMatches = confusionMatches]_vars


\* T and S share at least one offset
Overlaps(T, S) == T.start < S.end /\ T.end > S.start

\* how many members of list are other spans than S that overlap it
OverlapCount(list, S) ==
  Cardinality({i \in 1..Len(list) : Other(list[i], S) /\ Overlaps(list[i], S)})

\* the lists an accept step reads and sets, as one list each
ListsBefore == IF variant = "confusion" THEN medicalTerms \o confusionMatches ELSE medicalTerms
ListsAfter == IF variant = "confusion" THEN op'.newTerms \o op'.newConfusionMatches ELSE op'.newTerms

\* C4: on accepting a correction for S = [start, end) the spans removed are
\* exactly the other spans T with T.start < end and T.end > start: as many
\* spans leave the lists as there are such T, and every other span that lies
\* entirely before or entirely after the range is still there, with its term
\* and its length.
C4_RemovedAreOverlaps ==
  [][AcceptStep =>
       LET S == selectedTerm[1]
       IN  /\ Len(ListsAfter) = Len(ListsBefore) - OverlapCount(ListsBefore, S)
           /\ \A i \in 1..Len(ListsBefore) :
                LET T == ListsBefore[i]
                IN  (Other(T, S) /\ ~Overlaps(T, S)) =>
                      \E j \in 1..Len(ListsAfter) :
                        /\ ListsAfter[j].term = T.term
                        /\ ListsAfter[j].end - ListsAfter[j].start = T.end - T.start
                        /\ ListsAfter[j].source = T.source]_vars

\* an accept has removed a span that overlapped the selected one and has
\* kept a span that did not
C4_Witness ==
  /\ op.name = "accept" /\ op.selected # <<>>
  /\ \E i \in 1..Len(op.fromTerms) :
       /\ Other(op.fromTerms[i], op.selected[1]) /\ Overlaps(op.fromTerms[i], op.selected[1])
       /\ \A j \in 1..Len(op.newTerms) : op.newTerms[j].term # op.fromTerms[i].term
  /\ \E i \in 1..Len(op.fromTerms) :
       /\ Other(op.fromTerms[i], op.selected[1]) /\ ~Overlaps(op.fromTerms[i], op.selected[1])
       /\ \E j \in 1..Len(op.newTerms) : op.newTerms[j].term = op.fromTerms[i].term


\* the members of list that are other spans than S
Others(list, S) == SeqFilter(list, {i \in 1..Len(list) : Other(list[i], S)})

\* C5: ignoring the selected span S of the current list leaves the text as it
\* is and emits nothing upstream; afterwards S is in the list with its term,
\* start and end, every entry for S is classified UserCorrected, and every
\* other span is where it was with all its fields.
C5_IgnoreResult ==
  [][(op'.name = "ignore" /\ SelectionCurrent) =>
       LET S == selectedTerm[1]
       IN  /\ text' = text
           /\ op'.emitted = <<>>
           /\ \E j \in 1..Len(op'.newTerms) : ~Other(op'.newTerms[j], S)
           /\ \A j \in 1..Len(op'.newTerms) :
                ~Other(op'.newTerms[j], S) => Classification(op'.newTerms[j]) = "UserCorrected"
           /\ \A j \in 1..Len(op'.newConfusionMatches) : Other(op'.newConfusionMatches[j], S)
           /\ Others(op'.newTerms, S) = Others(medicalTerms, S)
           /\ Others(op'.newConfusionMatches, S) = Others(confusionMatches, S)]_vars

\* an ignore of a misspelled span of the list has left another span next to it
C5_Witness ==
  /\ op.name = "ignore" /\ op.selected # <<>>
  /\ op.selected[1].needs_correction
  /\ \E i \in 1..Len(op.fromTerms) : ~Other(op.fromTerms[i], op.selected[1])
  /\ Others(op.fromTerms, op.selected[1]) # <<>>
  /\ op.fromConfusionMatches # <<>>


\* a step in which the suggestions of a /suggest request arrive
SuggestArrivesStep ==
  /\ op'.name = "none" /\ text' = text /\ isEditing' = isEditing
  /\ Len(pendingSuggest') < Len(pendingSuggest)

\* a step in which the response arrives of a resolution request that left
\* before the last correction: no resolution the caller issued after it
OvertakenResponseStep ==
  /\ op'.name = "none" /\ text' = text /\ isEditing' = isEditing
  /\ \E i \in 1..Len(inflight) :
       /\ inflight[i].overtaken
       /\ inflight' = SeqFilter(inflight, (1..Len(inflight)) \ {i})

UserCorrectedIn(list, T) ==
  \E j \in 1..Len(list) : ~Other(list[j], T) /\ Classification(list[j]) = "UserCorrected"

\* C6: a span classified UserCorrected keeps that classification through a
\* later accept (of a span that does not overlap it), a later ignore, the
\* arrival of suggestions and the arrival of the response of a resolution
\* that was requested before the correction.
C6_UserCorrectedIsTerminal ==
  [][\A i \in 1..Len(medicalTerms) :
       LET T == medicalTerms[i]
       IN  Classification(T) = "UserCorrected" =>
             /\ (op'.name = "ignore" \/ SuggestArrivesStep \/ OvertakenResponseStep) =>
                  UserCorrectedIn(medicalTerms', T)
             /\ (AcceptStep /\ Other(T, selectedTerm[1]) /\ ~Overlaps(T, selectedTerm[1])) =>
                  LET delta == Len(op'.arg[1]) - (selectedTerm[1].end - selectedTerm[1].start)
                  IN  UserCorrectedIn(op'.newTerms,
                                      IF T.end <= selectedTerm[1].start THEN T
                                      ELSE [T EXCEPT !.start = @ + delta, !.end = @ + delta])]_vars


\* the step changes neither of the caller's triggers
NoTrigger == checkNow' = checkNow /\ checkVersion' = checkVersion

\* C7: an accept or an ignore issues no resolution request, in either host,
\* and after it no request is issued before the caller changes a trigger.
C7_NoRequestAfterCorrection ==
  [][/\ op'.name \in {"accept", "ignore"} => requests' = requests
     /\ (op.name \in {"accept", "ignore"} /\ NoTrigger) => requests' = requests]_vars

\* C7, the part that holds: the accept or ignore step itself issues no request
C7_CorrectionStepIssuesNone ==
  [][op'.name \in {"accept", "ignore"} => requests' = requests]_vars


\* C8: resolutions of the same normalized text that are under way together
\* share one network request: no two requests in flight carry the same
\* cache key.
C8_SameTextCoalesced ==
  \A i, j \in 1..Len(inflight) : i # j => inflight[i].cacheKey # inflight[j].cacheKey

\* a press of the check button that the mounted checker serves from its cache
CacheServedStep ==
  /\ ~checkNow /\ checkNow'
  /\ text' = text /\ isEditing' = isEditing
  /\ Mounted
  /\ ~lastProcessedCheckNowRef
  /\ Trim(text) # <<>>
  /\ CacheHas(termCache, CacheKey(text))

\* C9: a resolution served from the client cache leaves the span state a
\* resolution of the same text by the backend leaves: the spell-check spans
\* and the drug-confusion spans, in the same order.
C9_CacheServedAsBackend ==
  [][CacheServedStep =>
       /\ medicalTerms' = CheckMedicalTermsBackend(text).results
       /\ variant = "confusion" =>
            confusionMatches' = ConfusionResults(DrugConfusionScanBackend(text))]_vars

\* C9, the part that holds: the spell-check spans served from the cache are
\* the ones the backend returned for that normalized text
C9_CacheServedSpellSpans ==
  [][CacheServedStep => medicalTerms' = CheckMedicalTermsBackend(text).results]_vars

\* C10: in the rendered list no spell-check span overlaps a drug-confusion
\* span: where the two overlap only the drug-confusion span is kept.
C10_ConfusionOverridesSpelling ==
  LET rendered == SortedTerms(Checker)
  IN  variant = "confusion" =>
        \A i, j \in 1..Len(rendered) :
          (rendered[i].source = "drug_confusion" /\ rendered[j].source # "drug_confusion") =>
            ~Overlaps(rendered[j], rendered[i])

\* C11: a resolution request is issued only by a step in which the caller
\* triggers one: checkNow goes from false to true, or checkVersion changes.
\* A text change, a re-render or a (re)mount of the checker alone issues none.
C11_RequestOnlyOnTrigger ==
  [][requests' > requests =>
       ((~checkNow /\ checkNow') \/ checkVersion' # checkVersion)]_vars

\* C12: a rendered span whose validation timed out (source
\* llm_identified_snomed_timeout, is_correct not set) is never shown as a
\* validated Correct term.
C12_TimedOutNeverCorrect ==
  LET rendered == SortedTerms(Checker)
  IN  Mounted =>
        \A i \in 1..Len(rendered) :
          (rendered[i].source = "llm_identified_snomed_timeout" /\ ~rendered[i].is_correct) =>
            Classification(rendered[i]) # "Correct"

\* C13: a cache lookup never returns an entry that has outlived its
\* time-to-live: a press of the check button is not served from an expired
\* entry, which counts as a miss.
C13_ExpiredNeverServed ==
  [][CacheServedStep => ~CacheEntry(termCache, CacheKey(text)).expired]_vars

\* C14: whatever resolutions have run, overlapping ones included, the cache
\* of the checker holds at most CACHE_LIMIT entries.
C14_CacheBounded == Len(termCache) <= CACHE_LIMIT

\* C14, the case: a full cache into which the responses of two resolutions
\* of new texts were stored, the two oldest entries giving way
C14_Witness ==
  /\ Len(termCache) = CACHE_LIMIT
  /\ requests = 2
  /\ {CacheKey(TextDBA), CacheKey(<<"b">>)} \subseteq CacheKeys(termCache)
  /\ CacheKeys(termCache) \cap {CacheKey(KeyText(1)), CacheKey(KeyText(2))} = {}

\* C15: when storing a new entry pushes the full cache over its limit, the
\* entry that gives way is the least recently used one, a use being the
\* storing of the entry or its being served as a cache hit.
C15_EvictsLeastRecentlyUsed ==
  [][(Len(termCache) = CACHE_LIMIT /\ Len(termCache') = CACHE_LIMIT) =>
       \A key \in CacheKeys(termCache) \ CacheKeys(termCache') : key = cacheUse[1]]_vars

\* a press of the check button whose lookup finds an entry without a results
\* list
MalformedFoundStep ==
  /\ CacheServedStep
  /\ ~HasResults(CacheGet(termCache, CacheKey(text)))

\* C16: a cache lookup that finds a malformed entry (a payload without a
\* results list) behaves as a miss: the payload is not installed as the span
\* list, and the text is resolved by a request.
C16_MalformedEntryIsMiss ==
  [][MalformedFoundStep =>
       /\ medicalTerms' # NotAnArray(CacheGet(termCache, CacheKey(text)))
       /\ requests' = requests + 1]_vars

\* the values of the text prop without a character to check
EmptyInputs == {<<>>, <<" ">>, <<" ", " ">>, Null, Undefined}

\* the span lists and the term counters of c are cleared
Cleared(c) ==
  /\ c.medicalTerms = <<>>
  /\ c.confusionMatches = <<>>
  /\ c.uniqueTermCount = 0
  /\ c.totalOccurrences = 0

\* a press of the check button on a text that trims to nothing
ResolveEmptyStep ==
  /\ ~checkNow /\ checkNow'
  /\ text' = text /\ isEditing' = isEditing
  /\ Mounted
  /\ ~lastProcessedCheckNowRef
  /\ Trim(text) = <<>>

\* C17: resolving an empty, whitespace-only, null or undefined text clears
\* the span lists and the term counters and issues no network request: in
\* every state the analysis of such a text returns a cleared checker with
\* the requests in flight unchanged, and a press of the check button on such
\* a text leaves the lists and counters cleared and sends nothing.
C17_EmptyTextClears ==
  /\ [](\A t \in EmptyInputs :
          LET c == RunMedicalAnalysis(Checker, t)
          IN  Cleared(c) /\ c.inflight = inflight /\ c.termCache = termCache)
  /\ [][ResolveEmptyStep =>
          /\ Cleared(Checker')
          /\ requests' = requests
          /\ inflight' = inflight]_vars

\* C17, the case: in the revision with the drug-confusion scan the response
\* for "d b a" has arrived and filled the lists, and a press of the check
\* button on a text that trims to nothing has cleared them since
C17_Witness ==
  /\ variant = "confusion"
  /\ Mounted
  /\ requests = 1
  /\ inflight = <<>>
  /\ CacheHas(termCache, CacheKey(TextDBA))
  /\ Trim(text) = <<>>
  /\ checkNow
  /\ lastProcessedCheckNowRef
  /\ Cleared(Checker)

\* C18: a term is posted to /add-medicine only by the step in which the
\* user confirms the selected term in the popup, and the term posted is the
\* selected one; no other step posts anything.
C18_AddedOnlyOnConfirm ==
  [][op'.posted # <<>> =>
       /\ op'.name = "confirm"
       /\ PopupShown(Checker)
       /\ ConfirmMode(Checker)
       /\ op'.posted = <<selectedTerm[1].term>>]_vars

\* C18, the case: the user has confirmed a term and it was posted
C18_Witness == op.name = "confirm" /\ op.posted # <<>> /\ selectedTerm = <<>>

\* the values of the entries of list that carry the given source tag
ValuesOf(list, source) ==
  LET tagged == SeqFilter(list, {i \in 1..Len(list) : list[i].source = source})
  IN  [i \in 1..Len(tagged) |-> tagged[i].value]

\* the suggestions the popup lists, top to bottom: "Spelling Suggestions",
\* "Related Medical Products", and in the revision with the drug-confusion
\* scan "Drug Alternatives"
ShownSuggestions(c) ==
  ValuesOf(c.suggestions, "spellcheck") \o ValuesOf(c.suggestions, "database")
    \o (IF variant = "confusion" THEN ValuesOf(c.suggestions, "drug_confusion") ELSE <<>>)

\* the first entry of every normalized (trimmed, lowercased) value
Deduplicated(values) ==
  SeqFilter(values, {i \in 1..Len(values) :
                       \A j \in 1..(i - 1) : CacheKey(values[j]) # CacheKey(values[i])})

\* the reference merge: by source priority, one entry per normalized value
ReferenceMerge(list) ==
  Deduplicated(ValuesOf(list, "spellcheck") \o ValuesOf(list, "drug_confusion")
                 \o ValuesOf(list, "database"))

\* C19: the suggestion list shown for a clicked span is the reference merge
\* of the suggestions gathered for it: spelling suggestions first, then
\* drug-confusion alternatives, then database suggestions, no two entries
\* with the same normalized value.
C19_ShownIsReferenceMerge ==
  (Mounted /\ PopupShown(Checker) /\ ~ConfirmMode(Checker)) =>
    ShownSuggestions(Checker) = ReferenceMerge(suggestions)

\* C20: whenever a download button is enabled, the agreement was checked
\* and the authentication was completed while the note now shown was the
\* one shown: a note generated since requires both again.
C20_DownloadNeedsFreshConsent ==
  DownloadEnabled => (agreedNote = soapNote /\ authenticatedNote = soapNote)

\* a press of the check button while the checker is mounted
PressStep ==
  /\ checkNow' # checkNow
  /\ text' = text /\ isEditing' = isEditing
  /\ Mounted

\* the checker c1 is c0 after one resolution of t: the lists, the counters
\* and the requests in flight are the ones the analysis of t leaves
ResolvedFrom(c0, c1, t) ==
  LET ran == RunMedicalAnalysis(c0, t)
  IN  /\ c1.medicalTerms = ran.medicalTerms
      /\ c1.confusionMatches = ran.confusionMatches
      /\ c1.uniqueTermCount = ran.uniqueTermCount
      /\ c1.totalOccurrences = ran.totalOccurrences
      /\ c1.isChecking = ran.isChecking
      /\ c1.inflight = ran.inflight

\* C21: every press of the check button runs one resolution of the text in
\* the mounted checker, served from the cache or sent to the backend: no
\* press is skipped.
C21_EveryPressResolves ==
  [][PressStep => ResolvedFrom(Checker, Checker', text)]_vars

\* the response of the one request still under way arrives, with every
\* fetch answered ok
LastResponseStep ==
  /\ Mounted
  /\ Len(inflight) = 1
  /\ text' = text /\ isEditing' = isEditing /\ checkNow' = checkNow
  /\ Checker' = ResolveResponse(Checker, 1, "ok")

\* C22: when the resolutions of two different texts overlap, then once the
\* responses have arrived the span list shown is the one of the text that
\* was requested last, in whatever order the responses arrive.
C22_LastRequestedWins ==
  [][LastResponseStep =>
       medicalTerms' = CheckMedicalTermsBackend(lastRequested[1]).results]_vars

\* C23: whenever a span list is displayed with a text, every span lies in
\* the text, 0 <= start < end <= len(text), and covers its own term.
C23_SpansMatchText ==
  LET rendered == SortedTerms(Checker)
  IN  Mounted =>
        \A i \in 1..Len(rendered) :
          /\ 0 <= rendered[i].start
          /\ rendered[i].start < rendered[i].end
          /\ rendered[i].end <= Len(text)
          /\ Substring(text, rendered[i].start, rendered[i].end) = rendered[i].term

\* no two members of list overlap
NonOverlapping(list) ==
  \A i, j \in 1..Len(list) : i # j => ~Overlaps(list[i], list[j])

\* C24: when the spell-check list and the drug-confusion list are each
\* pairwise non-overlapping before an accept or an ignore, the lists the
\* handler sets are again pairwise non-overlapping, with at most one span
\* per text range, also when the selected span is in both lists.
C24_ReconcileKeepsDisjoint ==
  [][(/\ op'.name \in {"accept", "ignore"}
      /\ selectedTerm # <<>>
      /\ NonOverlapping(medicalTerms)
      /\ NonOverlapping(confusionMatches)) =>
        (NonOverlapping(op'.newTerms) /\ NonOverlapping(op'.newConfusionMatches))]_vars

\* C25: the highlighted text, read as the concatenation of its plain and
\* highlighted segments in their order, is the current text: no word is
\* duplicated and no character is lost, in every span state reached by
\* checks, accepts and ignores.
C25_RenderedIsText == Mounted => RenderedText(Checker, text) = text

\* C26: the spans installed from the cache are the spans the backend
\* returns for the very text that is checked, also when the entry was
\* stored for another text with the same cache key (the same text but for
\* blanks around it or the case of its letters).
C26_CacheServesExactText ==
  [][CacheServedStep =>
       LET exact == CheckMedicalTermsBackend(text).results
       IN  /\ Len(medicalTerms') = Len(exact)
           /\ \A i \in 1..Len(exact) : medicalTerms'[i] = exact[i]]_vars


\* C27: the suggestions the popup shows belong to the selected span: when
\* the response of a /suggest request installs its suggestions, the request
\* it answers was sent for the term that is selected now, so a late response
\* for a term clicked earlier never replaces them.
C27_SuggestionsOfSelectedSpan ==
  [][SuggestArrivesStep =>
       \A i \in 1..Len(pendingSuggest), outcome \in SuggestOutcomes :
         Checker' = SuggestResponse(Checker, i, outcome) =>
           /\ selectedTerm # <<>>
           /\ pendingSuggest[i].word = selectedTerm[1].term]_vars


\* C28: across the mounted checker components at most one
\* GET /medical-nlp-status request is in flight at any time, and once a
\* request has succeeded no further request is sent: a legend opened later
\* takes the status from the window's cache.
C28_OneStatusRequest ==
  /\ [](Cardinality(nlpInflight) <= 1)
  /\ [][nlpSucceeded =>
          /\ nlpSent' = nlpSent
          /\ \A k \in LegendComponents :
               (~showLegend[k] /\ showLegend'[k]) => nlpStatus'[k] = medicalNlpStatusCache]_vars

\* after a failed request a second one has succeeded, and every component
\* has its legend open on the status the window caches
C28_Witness ==
  /\ nlpSucceeded
  /\ nlpSent >= 2
  /\ nlpInflight = {}
  /\ \A k \in LegendComponents : showLegend[k] /\ nlpStatus[k] = medicalNlpStatusCache

\* the outcomes of a resolution that failed: a network error, a non-OK
\* response of the spell-check request or of the drug-confusion request
FailedOutcomes == {"spell_not_ok", "confusion_not_ok", "network_error"}

\* C29: when a resolution fails, the span lists shown before and the cache
\* are left as they were, and the checking indicator ends false.
C29_FailureLeavesState ==
  [][\A i \in 1..Len(inflight), outcome \in Outcomes \cap FailedOutcomes :
       (/\ Mounted
        /\ op'.name = "none" /\ text' = text /\ isEditing' = isEditing /\ checkNow' = checkNow
        /\ Checker' = ResolveResponse(Checker, i, outcome)) =>
         /\ medicalTerms' = medicalTerms
         /\ confusionMatches' = confusionMatches
         /\ termCache' = termCache
         /\ ~isChecking']_vars


\* C30: in the debounced checker at most one check timer is pending at any
\* time, every change of the text cancels the timer that was pending, and
\* after the last change of the text at most one request is sent for it:
\* a cache update of the checker itself causes no further request.
C30_OneTimerOneResolution ==
  /\ [](Cardinality(timers) <= 1)
  /\ [][debouncedText' # debouncedText => timers \cap timers' = {}]_vars
  /\ [](sentSinceChange <= 1)

====
